---- MODULE Spec2Model ----
(***************************************************************************)
(* Model of fastapi-app/main.py: a todo CRUD service that keeps the whole  *)
(* collection in one JSON file.  Strings are sequences of one-character    *)
(* strings, so that trimming and date parsing are computed as the code     *)
(* computes them.  A stored todo is a record (a JSON object / Python       *)
(* dict); a legacy todo is a record without the "date" field.              *)
(***************************************************************************)
EXTENDS Integers, Sequences, FiniteSets, TLC

(***************************************************************************)
(* Bounds of the model.                                                    *)
(***************************************************************************)
\* the store never grows beyond this many records (guard of the creates)
MaxTodos == 2

\* days the process may stay up after it was started
MaxElapsed == 1

\* the todo ids requests are made with
Ids == {1, 2}

(***************************************************************************)
(* Python str / int / datetime.date primitives used by the validators.     *)
(***************************************************************************)
Digits == <<"0", "1", "2", "3", "4", "5", "6", "7", "8", "9">>

DigitSet == {Digits[i] : i \in 1..10}

IsDigit(c) == c \in DigitSet

DigitValue == [c \in DigitSet |-> (CHOOSE i \in 1..10 : Digits[i] = c) - 1]

DigitVal(c) == DigitValue[c]

RECURSIVE lstrip(_)
lstrip(s) == IF s # <<>> /\ Head(s) = " " THEN lstrip(Tail(s)) ELSE s

RECURSIVE rstrip(_)
rstrip(s) ==
    IF s # <<>> /\ s[Len(s)] = " " THEN rstrip(SubSeq(s, 1, Len(s) - 1)) ELSE s

\* str.strip()
strip(s) == rstrip(lstrip(s))

\* str.split(sep) for a one-character separator
\* str.find(sep) from index i on, counted from 1; 0 when sep does not occur
RECURSIVE find(_, _, _)
find(s, sep, i) ==
    IF i > Len(s) THEN 0 ELSE IF s[i] = sep THEN i ELSE find(s, sep, i + 1)

RECURSIVE SplitAt(_, _, _)
SplitAt(s, sep, i) ==
    IF i = 0 THEN <<s>>
    ELSE <<SubSeq(s, 1, i - 1)>>
             \o SplitAt(SubSeq(s, i + 1, Len(s)), sep,
                        find(SubSeq(s, i + 1, Len(s)), sep, 1))

split(s, sep) == SplitAt(s, sep, find(s, sep, 1))

\* the body of an integer literal: digits, single underscores between digits
IsIntBody(u) ==
    /\ u # <<>>
    /\ \A i \in 1..Len(u) :
          \/ IsDigit(u[i])
          \/ /\ u[i] = "_"
             /\ 1 < i /\ i < Len(u)
             /\ IsDigit(u[i - 1]) /\ IsDigit(u[i + 1])

\* the literal behind the sign of the stripped text t
Unsigned(t) == IF t # <<>> /\ Head(t) \in {"+", "-"} THEN Tail(t) ELSE t

\* int(s) does not raise ValueError
IsInt(s) == IsIntBody(Unsigned(strip(s)))

RECURSIVE IntAcc(_, _)
IntAcc(u, acc) ==
    IF u = <<>> THEN acc
    ELSE IF Head(u) = "_" THEN IntAcc(Tail(u), acc)
    ELSE IntAcc(Tail(u), 10 * acc + DigitVal(Head(u)))

\* int(s), for s with IsInt(s)
Signed(t) ==
    IF t # <<>> /\ Head(t) = "-"
    THEN 0 - IntAcc(Unsigned(t), 0) ELSE IntAcc(Unsigned(t), 0)

int(s) == Signed(strip(s))

IsLeap(y) == y % 4 = 0 /\ (y % 100 # 0 \/ y % 400 = 0)

DaysInMonth(y, m) ==
    IF m = 2 THEN (IF IsLeap(y) THEN 29 ELSE 28)
    ELSE IF m \in {4, 6, 9, 11} THEN 30 ELSE 31

\* datetime.date(y, m, d) does not raise
IsDate(y, m, d) ==
    /\ 1 <= y /\ y <= 9999
    /\ 1 <= m /\ m <= 12
    /\ 1 <= d /\ d <= DaysInMonth(y, m)

\* n as k decimal digits, zero padded
RECURSIVE Pad(_, _)
Pad(n, k) == IF k = 0 THEN <<>> ELSE Pad(n \div 10, k - 1) \o <<Digits[(n % 10) + 1]>>

\* date.isoformat()
isoformat(dt) == Pad(dt[1], 4) \o <<"-">> \o Pad(dt[2], 2) \o <<"-">> \o Pad(dt[3], 2)

NextDay(dt) ==
    IF dt[3] < DaysInMonth(dt[1], dt[2]) THEN <<dt[1], dt[2], dt[3] + 1>>
    ELSE IF dt[2] < 12 THEN <<dt[1], dt[2] + 1, 1>>
    ELSE <<dt[1] + 1, 1, 1>>

RECURSIVE AddDays(_, _)
AddDays(dt, n) == IF n = 0 THEN dt ELSE AddDays(NextDay(dt), n - 1)

\* the calendar day on which the process was started (the module imported)
StartDate == <<2024, 2, 29>>

\* _date.today().isoformat() evaluated n days after the process started
today(n) == isoformat(AddDays(StartDate, n))

\* module constant TODAY: evaluated once, when the module is imported
TODAY == today(0)

(***************************************************************************)
(* Model & validation: TodoItem, DateOnly.  A validator gives ok = FALSE   *)
(* where the code raises ValueError.                                       *)
(***************************************************************************)
Stripped(v, stripped) ==
    IF v = <<>> \/ stripped = <<>>
    THEN [ok |-> FALSE, value |-> v]
    ELSE [ok |-> TRUE, value |-> stripped]

\* a not_empty that returns the value as given
not_empty_untrimmed(v) == Stripped(v, IF strip(v) = <<>> THEN <<>> ELSE v)

\* field_validator("title", "description")
not_empty(v) == Stripped(v, strip(v))

ValidParts(parts) ==
    /\ Len(parts) = 3
    /\ \A i \in 1..3 : IsInt(parts[i])
    /\ IsDate(int(parts[1]), int(parts[2]), int(parts[3]))

\* field_validator("date"): y, m, d = map(int, v.split("-")); _date(y, m, d)
valid_date(v) == [ok |-> ValidParts(split(v, "-")), value |-> v]

\* model_dump() of the TodoItem with these validated fields
Validated(obj, id, title, description, completed, date) ==
    IF title.ok /\ description.ok /\ date.ok
    THEN [ok |-> TRUE,
          value |-> [id |-> id,
                     title |-> title.value,
                     description |-> description.value,
                     completed |-> completed,
                     date |-> date.value]]
    ELSE [ok |-> FALSE, value |-> obj]

\* TodoItem(**obj) built n days after the process started: the required
\* fields, the defaults of completed and date, the field validators.  obj is
\* a JSON object (a record; a key it lacks is an omitted field).
TodoItem(obj, n) ==
    IF ~({"id", "title", "description"} \subseteq DOMAIN obj)
    THEN [ok |-> FALSE, value |-> obj]
    ELSE Validated(obj,
                   obj.id,
                   not_empty(obj.title),
                   not_empty(obj.description),
                   IF "completed" \in DOMAIN obj THEN obj.completed ELSE FALSE,
                   IF "date" \in DOMAIN obj
                   THEN valid_date(obj.date)
                   ELSE [ok |-> TRUE, value |-> today(n)])

\* DateOnly(**obj)
DateOnly(obj) ==
    IF "date" \notin DOMAIN obj
    THEN [ok |-> FALSE, value |-> obj]
    ELSE [ok |-> valid_date(obj.date).ok, value |-> [date |-> obj.date]]

(***************************************************************************)
(* Storage helpers.  The file is missing, holds text that is not JSON, or  *)
(* holds the JSON array todos; or it holds bytes that are not UTF-8 text.  *)
(***************************************************************************)
MissingFile == [kind |-> "missing", todos |-> <<>>]

CorruptFile == [kind |-> "corrupt", todos |-> <<>>]

\* a file whose bytes do not decode as UTF-8
UndecodableFile == [kind |-> "undecodable", todos |-> <<>>]

\* json.load(f) reads the file opened with encoding="utf-8": on bytes that
\* are not UTF-8 the read raises UnicodeDecodeError, which is not a
\* json.JSONDecodeError, so load_todos does not catch it
UnicodeDecodeError(f) == f.kind = "undecodable"

\* what load_todos returns when it returns
load_todos(f) == IF f.kind = "json" THEN f.todos ELSE <<>>

save_todos(todos) == [kind |-> "json", todos |-> todos]

(***************************************************************************)
(* Responses: the status code and the JSON body.  A body is a JSON object  *)
(* (a record); the JSON array GET /todos answers is the record of its      *)
(* elements, [todos |-> <<...>>].                                          *)
(***************************************************************************)
NOT_FOUND_MSG == "To-Do item not found"

HTTPException(status_code, detail) ==
    [status |-> status_code, body |-> [detail |-> detail]]

\* the 500 the server answers when a handler raises another exception
InternalServerError == HTTPException(500, "Internal Server Error")

\* the 422 FastAPI answers when the request body fails validation
RequestValidationError == HTTPException(422, "validation error")

Serialized(vs) ==
    IF \A i \in 1..Len(vs) : vs[i].ok
    THEN [status |-> 200, body |-> [todos |-> [i \in 1..Len(vs) |-> vs[i].value]]]
    ELSE HTTPException(500, "response validation error")

\* response_model=List[TodoItem]: each returned dict is validated and dumped
response_model_list(ts, n) ==
    Serialized([i \in 1..Len(ts) |-> TodoItem(ts[i], n)])

SerializedOne(r) ==
    IF r.status = 200 THEN [status |-> 200, body |-> r.body.todos[1]] ELSE r

\* response_model=TodoItem
response_model(t, n) == SerializedOne(response_model_list(<<t>>, n))

\* what a handler did: the list it holds at its end, its response, and
\* whether it called save_todos on that list
Done(todos, resp, save) == [todos |-> todos, resp |-> resp, save |-> save]

(***************************************************************************)
(* Request handlers, as functions of the list load_todos() returned, the   *)
(* validated request and n, the days the process has been up.              *)
(***************************************************************************)
HasId(todos, id) == \E i \in 1..Len(todos) : todos[i].id = id

\* where the loop "for i, t in enumerate(todos): if t["id"] == todo_id" stops
FirstIdx(todos, id) ==
    CHOOSE i \in 1..Len(todos) :
        todos[i].id = id /\ \A j \in 1..(i - 1) : todos[j].id # id

\* if "date" not in t: t["date"] = TODAY
Backfill(t) ==
    IF "date" \in DOMAIN t THEN t
    ELSE [id |-> t.id, title |-> t.title, description |-> t.description,
          completed |-> t.completed, date |-> TODAY]

\* for t in todos: if "date" not in t: t["date"] = TODAY
Backfilled(todos) == [i \in 1..Len(todos) |-> Backfill(todos[i])]

\* get_todos' filters without the date filter
Filtered_by_completed(filled, query) ==
    LET ByCompleted(t) == t.completed = query.completed
    IN  IF "completed" \in DOMAIN query
        THEN SelectSeq(filled, ByCompleted) ELSE filled

\* the two filters of GET /todos on the backfilled list; query holds the
\* parameters that were given ("completed", "date")
Filtered(filled, query) ==
    LET ByCompleted(t) == t.completed = query.completed
        ByDate(t) == t.date = query.date
        byCompleted == IF "completed" \in DOMAIN query
                       THEN SelectSeq(filled, ByCompleted) ELSE filled
    IN  IF "date" \in DOMAIN query
        THEN SelectSeq(byCompleted, ByDate) ELSE byCompleted

\* get_todos that writes the backfilled list back
get_todos_saving(todos, query, n) ==
    Done(Backfilled(todos),
         response_model_list(Filtered(Backfilled(todos), query), n), TRUE)

\* GET /todos
get_todos(todos, query, n) ==
    Done(todos, response_model_list(Filtered(Backfilled(todos), query), n), FALSE)

\* create_todo without the duplicate check
create_todo_unchecked(todos, todo, n) ==
    Done(Append(todos, todo), response_model(todo, n), TRUE)

\* create_todo that saves the new record alone
create_todo_alone(todos, todo, n) ==
    IF HasId(todos, todo.id)
    THEN Done(todos, HTTPException(409, "Duplicate id"), FALSE)
    ELSE Done(<<todo>>, response_model(todo, n), TRUE)

\* create_todo that puts the new record first
create_todo_first(todos, todo, n) ==
    IF HasId(todos, todo.id)
    THEN Done(todos, HTTPException(409, "Duplicate id"), FALSE)
    ELSE Done(<<todo>> \o todos, response_model(todo, n), TRUE)

\* POST /todos
create_todo(todos, todo, n) ==
    IF HasId(todos, todo.id)
    THEN Done(todos, HTTPException(409, "Duplicate id"), FALSE)
    ELSE Done(Append(todos, todo), response_model(todo, n), TRUE)

\* Merged without merged["id"] = todo_id
Merged_body_id(t, todo_id, updated_todo) == updated_todo

\* merged = updated_todo.model_dump(); merged["id"] = todo_id;
\* if not merged.get("date"): merged["date"] = t.get("date", TODAY)
Merged(t, todo_id, updated_todo) ==
    [id |-> todo_id,
     title |-> updated_todo.title,
     description |-> updated_todo.description,
     completed |-> updated_todo.completed,
     date |-> IF updated_todo.date # <<>> THEN updated_todo.date
              ELSE IF "date" \in DOMAIN t THEN t.date ELSE TODAY]

\* a replacement that appends the new record and leaves the old one
Replaced_appended(todos, i, merged, n) ==
    Done(Append(todos, merged), response_model(merged, n), TRUE)

\* todos[i] = merged; save_todos(todos); return merged
Replaced(todos, i, merged, n) ==
    Done([todos EXCEPT ![i] = merged], response_model(merged, n), TRUE)

\* PUT /todos/{todo_id}
update_todo(todos, todo_id, updated_todo, n) ==
    IF HasId(todos, todo_id)
    THEN Replaced(todos, FirstIdx(todos, todo_id),
                  Merged(todos[FirstIdx(todos, todo_id)], todo_id, updated_todo),
                  n)
    ELSE Done(todos, HTTPException(404, NOT_FOUND_MSG), FALSE)

\* Deleted without the length check
Deleted_unchecked(todos, new_todos) ==
    Done(new_todos,
         [status |-> 200, body |-> [message |-> "To-Do item deleted"]], TRUE)

Deleted(todos, new_todos) ==
    IF Len(new_todos) = Len(todos)
    THEN Done(todos, HTTPException(404, NOT_FOUND_MSG), FALSE)
    ELSE Done(new_todos,
              [status |-> 200, body |-> [message |-> "To-Do item deleted"]], TRUE)

\* DELETE /todos/{todo_id}
delete_todo(todos, todo_id) ==
    LET Other(t) == t.id # todo_id
    IN  Deleted(todos, SelectSeq(todos, Other))

\* get_todo that answers with the first record of the list
get_todo_first(todos, todo_id, n) ==
    IF HasId(todos, todo_id)
    THEN Done(todos, response_model(Backfill(todos[1]), n), FALSE)
    ELSE Done(todos, HTTPException(404, NOT_FOUND_MSG), FALSE)

\* GET /todos/{todo_id}
get_todo(todos, todo_id, n) ==
    IF HasId(todos, todo_id)
    THEN Done(todos,
              response_model(Backfill(todos[FirstIdx(todos, todo_id)]), n),
              FALSE)
    ELSE Done(todos, HTTPException(404, NOT_FOUND_MSG), FALSE)

\* Redated that rebuilds the record from defaults
Redated_reset(t, payload) ==
    [id |-> t.id, title |-> t.title, description |-> t.description,
     completed |-> FALSE, date |-> payload.date]

\* t["date"] = TODAY if t has none; then t["date"] = payload.date
Redated(t, payload) ==
    [id |-> t.id, title |-> t.title, description |-> t.description,
     completed |-> t.completed, date |-> payload.date]

\* PATCH /todos/{todo_id}/date
update_todo_date(todos, todo_id, payload, n) ==
    IF HasId(todos, todo_id)
    THEN Replaced(todos, FirstIdx(todos, todo_id),
                  Redated(Backfill(todos[FirstIdx(todos, todo_id)]), payload),
                  n)
    ELSE Done(todos, HTTPException(404, NOT_FOUND_MSG), FALSE)

(***************************************************************************)
(* A request as FastAPI serves it: the body is validated first, then the   *)
(* handler runs on what load_todos() returned.  A request is a record of   *)
(* its operation op, the todo id in its path, its JSON body json and its   *)
(* query parameters params (each where the operation has one).             *)
(***************************************************************************)
\* the handler of a request whose validated body is v
Handler(req, v, todos, n) ==
    CASE req.op = "list" -> get_todos(todos, req.params, n)
      [] req.op = "get" -> get_todo(todos, req.path, n)
      [] req.op = "create" -> create_todo(todos, v, n)
      [] req.op = "replace" -> update_todo(todos, req.path, v, n)
      [] req.op = "patch" -> update_todo_date(todos, req.path, v, n)
      [] req.op = "delete" -> delete_todo(todos, req.path)

\* the validated body of the request (requests without a body always pass)
Validate(req, n) ==
    CASE req.op \in {"create", "replace"} -> TodoItem(req.json, n)
      [] req.op = "patch" -> DateOnly(req.json)
      [] OTHER -> [ok |-> TRUE, value |-> <<>>]

\* the file after a handler that ran on the file f
Stored(r, f) == IF r.save THEN save_todos(r.todos) ELSE f

Outcome(r, f) == [resp |-> r.resp, file |-> Stored(r, f)]

\* the handler run on the file f: load_todos() raises or returns the list
\* the handler goes on with
Ran(req, v, f, n) ==
    IF UnicodeDecodeError(f)
    THEN Done(<<>>, InternalServerError, FALSE)
    ELSE Handler(req, v.value, load_todos(f), n)

Route(req, v, f, n) ==
    IF v.ok
    THEN Outcome(Ran(req, v, f, n), f)
    ELSE [resp |-> RequestValidationError, file |-> f]

\* one request served from start to end on the file f
Serve(req, f, n) == Route(req, Validate(req, n), f, n)

(***************************************************************************)
(* The requests the model makes.                                           *)
(***************************************************************************)
OldDate == <<"2", "0", "2", "3", "-", "1", "2", "-", "3", "1">>

\* a calendar date whose month and day are not zero padded
UnpaddedDate == <<"2", "0", "2", "4", "-", "3", "-", "1">>

\* 2023 is not a leap year
NoSuchDay == <<"2", "0", "2", "3", "-", "0", "2", "-", "2", "9">>

\* only two components
ShortDate == <<"2", "0", "2", "4", "-", "0", "1">>

Desc == <<"d">>

\* a title with surrounding whitespace
PaddedTitle == <<" ", "A", " ">>

\* a todo written by the version of the program that had no "date" field
Legacy(id) ==
    [id |-> id, title |-> <<"L">>, description |-> Desc, completed |-> TRUE]

\* bodies that pass TodoItem: completed and date are given or omitted
ValidBodies ==
    UNION {{ [id |-> id, title |-> PaddedTitle, description |-> Desc],
             [id |-> id, title |-> <<"B">>, description |-> Desc,
              completed |-> TRUE, date |-> OldDate] } : id \in Ids}

\* bodies with one field wrong or written unusually
OddBodies ==
    UNION {{ [id |-> id, title |-> <<" ">>, description |-> Desc],
             [id |-> id, title |-> <<"B">>, description |-> <<>>],
             [id |-> id, title |-> <<"B">>],
             [id |-> id, title |-> <<"B">>, description |-> Desc,
              date |-> NoSuchDay],
             [id |-> id, title |-> <<"B">>, description |-> Desc,
              date |-> ShortDate],
             [id |-> id, title |-> <<"B">>, description |-> Desc,
              date |-> UnpaddedDate] } : id \in Ids}

TodoBodies == ValidBodies \cup OddBodies

DateBodies ==
    {[date |-> OldDate], [date |-> UnpaddedDate], [date |-> NoSuchDay],
     [date |-> ShortDate], [date |-> <<>>]}

Queries ==
    {<<>>, [completed |-> TRUE], [completed |-> FALSE], [date |-> OldDate],
     [date |-> TODAY], [completed |-> TRUE, date |-> OldDate]}

\* the stores the process may be started on
InitFiles ==
    {MissingFile, CorruptFile, save_todos(<<>>), save_todos(<<Legacy(1)>>)}

(***************************************************************************)
(* The text of the file: json.dump(todos, f, ensure_ascii=False, indent=4) *)
(* and json.load(f), character by character, for lists of todo dicts.      *)
(***************************************************************************)
Quote == "\""

Backslash == "\\"

Newline == "\n"

\* the separator before an item at nesting depth k: a newline and 4k spaces
Indent(k) == <<Newline>> \o [i \in 1..(4 * k) |-> " "]

\* a string written without its escapes
EscapeChar_raw(c) == <<c>>

\* the escape json writes for a character of a string
EscapeChar(c) ==
    CASE c = Quote -> <<Backslash, Quote>>
      [] c = Backslash -> <<Backslash, Backslash>>
      [] c = Newline -> <<Backslash, "n">>
      [] OTHER -> <<c>>

RECURSIVE Escaped(_)
Escaped(s) == IF s = <<>> THEN <<>> ELSE EscapeChar(Head(s)) \o Escaped(Tail(s))

\* a str
encode_str(s) == <<Quote>> \o Escaped(s) \o <<Quote>>

\* an int that is not negative
RECURSIVE encode_int(_)
encode_int(n) ==
    IF n < 10 THEN <<Digits[n + 1]>>
    ELSE encode_int(n \div 10) \o <<Digits[(n % 10) + 1]>>

encode_bool(b) ==
    IF b THEN <<"t", "r", "u", "e">> ELSE <<"f", "a", "l", "s", "e">>

\* the names of the keys of a todo dict, as text
KeyText ==
    [id |-> <<"i", "d">>,
     title |-> <<"t", "i", "t", "l", "e">>,
     description |-> <<"d", "e", "s", "c", "r", "i", "p", "t", "i", "o", "n">>,
     completed |-> <<"c", "o", "m", "p", "l", "e", "t", "e", "d">>,
     date |-> <<"d", "a", "t", "e">>]

\* the keys of the dict t in the order the dict holds them
KeysOf(t) ==
    IF "date" \in DOMAIN t
    THEN <<"id", "title", "description", "completed", "date">>
    ELSE <<"id", "title", "description", "completed">>

\* the value under a key of a todo dict, by its Python type
encode_value(key, v) ==
    CASE key = "id" -> encode_int(v)
      [] key = "completed" -> encode_bool(v)
      [] OTHER -> encode_str(v)

\* "key": value
encode_item(t, key) ==
    encode_str(KeyText[key]) \o <<":", " ">> \o encode_value(key, t[key])

RECURSIVE encode_items(_, _, _)
encode_items(t, keys, k) ==
    IF keys = <<>> THEN <<>>
    ELSE Indent(k) \o encode_item(t, Head(keys))
           \o (IF Len(keys) > 1 THEN <<",">> ELSE <<>>)
           \o encode_items(t, Tail(keys), k)

\* a dict at nesting depth k
encode_dict(t, k) == <<"{">> \o encode_items(t, KeysOf(t), k + 1) \o Indent(k) \o <<"}">>

RECURSIVE encode_elements(_)
encode_elements(todos) ==
    IF todos = <<>> THEN <<>>
    ELSE Indent(1) \o encode_dict(Head(todos), 1)
           \o (IF Len(todos) > 1 THEN <<",">> ELSE <<>>)
           \o encode_elements(Tail(todos))

\* json.dump(todos, f, ensure_ascii=False, indent=4)
json_dump(todos) ==
    IF todos = <<>> THEN <<"[", "]">>
    ELSE <<"[">> \o encode_elements(todos) \o Indent(0) \o <<"]">>

IsWs(c) == c \in {" ", Newline}

\* the index of the first character from i on that is not whitespace
RECURSIVE skip_ws(_, _)
skip_ws(s, i) == IF i <= Len(s) /\ IsWs(s[i]) THEN skip_ws(s, i + 1) ELSE i

\* the text does not parse
JSONDecodeError == [ok |-> FALSE, value |-> <<>>, at |-> 0]

\* a value, and the index behind its text
Parsed(value, at) == [ok |-> TRUE, value |-> value, at |-> at]

Is(s, i, c) == i <= Len(s) /\ s[i] = c

StartsWith(s, i, w) ==
    i + Len(w) - 1 <= Len(s) /\ SubSeq(s, i, i + Len(w) - 1) = w

\* the character an escape stands for
Unescape(c) == IF c = "n" THEN Newline ELSE c

\* the characters of a string from i on, up to its closing quote
RECURSIVE decode_chars(_, _, _)
decode_chars(s, i, acc) ==
    IF i > Len(s) \/ s[i] = Newline THEN JSONDecodeError
    ELSE IF s[i] = Quote THEN Parsed(acc, i + 1)
    ELSE IF s[i] = Backslash
         THEN IF i < Len(s) /\ s[i + 1] \in {"n", Quote, Backslash}
              THEN decode_chars(s, i + 2, Append(acc, Unescape(s[i + 1])))
              ELSE JSONDecodeError
         ELSE decode_chars(s, i + 1, Append(acc, s[i]))

decode_str(s, i) ==
    IF Is(s, i, Quote) THEN decode_chars(s, i + 1, <<>>) ELSE JSONDecodeError

RECURSIVE decode_digits(_, _, _)
decode_digits(s, i, n) ==
    IF i <= Len(s) /\ IsDigit(s[i])
    THEN decode_digits(s, i + 1, 10 * n + DigitVal(s[i]))
    ELSE Parsed(n, i)

\* a number without sign, fraction or exponent; no leading zero
decode_int(s, i) ==
    IF Is(s, i, "0") /\ i < Len(s) /\ IsDigit(s[i + 1]) THEN JSONDecodeError
    ELSE decode_digits(s, i, 0)

\* a value of a todo dict: a string, an int or a bool
decode_value(s, i) ==
    IF i > Len(s) THEN JSONDecodeError
    ELSE IF s[i] = Quote THEN decode_str(s, i)
    ELSE IF IsDigit(s[i]) THEN decode_int(s, i)
    ELSE IF StartsWith(s, i, encode_bool(TRUE)) THEN Parsed(TRUE, i + 4)
    ELSE IF StartsWith(s, i, encode_bool(FALSE)) THEN Parsed(FALSE, i + 5)
    ELSE JSONDecodeError

\* the items of a dict, as pairs <<key text, value>>: s[i] starts a key,
\* items are the pairs read so far
RECURSIVE decode_items(_, _, _)

NextItem(s, i, items) ==
    IF Is(s, i, ",") THEN decode_items(s, skip_ws(s, i + 1), items)
    ELSE IF Is(s, i, "}") THEN Parsed(items, i + 1)
    ELSE JSONDecodeError

AfterValue(s, key, v, items) ==
    IF v.ok THEN NextItem(s, skip_ws(s, v.at), Append(items, <<key, v.value>>))
    ELSE JSONDecodeError

AfterColon(s, key, i, items) ==
    IF Is(s, i, ":")
    THEN AfterValue(s, key, decode_value(s, skip_ws(s, i + 1)), items)
    ELSE JSONDecodeError

AfterKey(s, key, items) ==
    IF key.ok THEN AfterColon(s, key.value, skip_ws(s, key.at), items)
    ELSE JSONDecodeError

decode_items(s, i, items) == AfterKey(s, decode_str(s, i), items)

\* the value of a key among the pairs: the last pair with the key
Item(items, key) ==
    items[CHOOSE n \in 1..Len(items) :
            /\ items[n][1] = KeyText[key]
            /\ \A m \in (n + 1)..Len(items) : items[m][1] # KeyText[key]][2]

HasKeys(items, keys) ==
    {items[n][1] : n \in 1..Len(items)} = {KeyText[keys[n]] : n \in 1..Len(keys)}

\* the dict of the pairs; the model reads dicts with the keys of a todo
TodoDict(r) ==
    IF ~r.ok THEN JSONDecodeError
    ELSE IF HasKeys(r.value, KeysOf([date |-> <<>>]))
    THEN Parsed([id |-> Item(r.value, "id"),
                 title |-> Item(r.value, "title"),
                 description |-> Item(r.value, "description"),
                 completed |-> Item(r.value, "completed"),
                 date |-> Item(r.value, "date")], r.at)
    ELSE IF HasKeys(r.value, KeysOf(<<>>))
    THEN Parsed([id |-> Item(r.value, "id"),
                 title |-> Item(r.value, "title"),
                 description |-> Item(r.value, "description"),
                 completed |-> Item(r.value, "completed")], r.at)
    ELSE JSONDecodeError

decode_dict(s, i) ==
    IF Is(s, i, "{") THEN TodoDict(decode_items(s, skip_ws(s, i + 1), <<>>))
    ELSE JSONDecodeError

\* the elements of a list: s[i] starts an element, todos are those read
RECURSIVE decode_elements(_, _, _)

NextElement(s, i, todos) ==
    IF Is(s, i, ",") THEN decode_elements(s, skip_ws(s, i + 1), todos)
    ELSE IF Is(s, i, "]") THEN Parsed(todos, i + 1)
    ELSE JSONDecodeError

AfterElement(s, t, todos) ==
    IF t.ok THEN NextElement(s, skip_ws(s, t.at), Append(todos, t.value))
    ELSE JSONDecodeError

decode_elements(s, i, todos) == AfterElement(s, decode_dict(s, i), todos)

decode_list(s, i) ==
    IF ~Is(s, i, "[") THEN JSONDecodeError
    ELSE IF Is(s, skip_ws(s, i + 1), "]") THEN Parsed(<<>>, skip_ws(s, i + 1) + 1)
    ELSE decode_elements(s, skip_ws(s, i + 1), <<>>)

\* nothing but whitespace may follow the value
Whole(s, r) ==
    IF r.ok /\ skip_ws(s, r.at) = Len(s) + 1 THEN r ELSE JSONDecodeError

\* json.load(f) of a file whose text is s, for texts that hold a list
json_load(s) == Whole(s, decode_list(s, skip_ws(s, 1)))

\* the file whose text is s: its JSON list, or text that is not JSON
FileOf(r) == IF r.ok THEN save_todos(r.value) ELSE CorruptFile

FileOfText(s) == FileOf(json_load(s))

(***************************************************************************)
(* State: the storage file, the clock (days since the process started),    *)
(* and a record of the last request served today: what it was, what it     *)
(* answered, the file it found.  For requests served by concurrent worker  *)
(* threads: where each worker is in its request (pc), the request (wreq),  *)
(* what its handler computed from the list it loaded (work), and the       *)
(* response it returned (wresp).  overlap records that some request was    *)
(* started while another was between its load and the end of its save;     *)
(* acked is the set of ids whose Create was answered 200 and which no      *)
(* Delete answered 200 has removed since; seen tells of each worker that   *)
(* its request loaded a file a save had not finished.  text is the text of the file, where the model *)
(* follows it character by character (SpecText); elsewhere the file is the *)
(* list it holds.  latest is the latest request that changed the store,    *)
(* as its response and the id it addressed, where the model keeps it       *)
(* (SpecSeq).                                                              *)
(***************************************************************************)
VARIABLES file, now, last, resp, prev, pc, wreq, work, wresp, overlap, acked,
          seen, text, latest

vars ==
    <<file, now, last, resp, prev, pc, wreq, work, wresp, overlap, acked,
      seen, text, latest>>

\* the worker threads of the server
Workers == {1, 2}

NoRequest == [op |-> "none"]

NoResponse == [status |-> 0, body |-> <<>>]

NoWork == Done(<<>>, NoResponse, FALSE)

NoMutation == [resp |-> NoResponse, path |-> 0]

WorkersIdle ==
    /\ pc = [w \in Workers |-> "idle"]
    /\ wreq = [w \in Workers |-> NoRequest]
    /\ work = [w \in Workers |-> NoWork]
    /\ wresp = [w \in Workers |-> NoResponse]
    /\ overlap = FALSE
    /\ acked = {}
    /\ seen = [w \in Workers |-> FALSE]
    /\ latest = NoMutation

Init ==
    /\ file \in InitFiles
    /\ now = 0
    /\ last = NoRequest
    /\ resp = NoResponse
    /\ prev = file
    /\ WorkersIdle
    /\ text = <<>>

(***************************************************************************)
(* One request at a time: each handler runs from its load to its return.   *)
(***************************************************************************)
GetTodos ==
    \E q \in Queries :
        \E r \in {Serve([op |-> "list", params |-> q], file, now)} :
            /\ file' = r.file
            /\ resp' = r.resp
            /\ last' = [op |-> "list", params |-> q]
            /\ prev' = file
            /\ UNCHANGED <<now, pc, wreq, work, wresp, overlap, acked, seen, text,
                   latest>>

GetTodo ==
    \E id \in Ids :
        \E r \in {Serve([op |-> "get", path |-> id], file, now)} :
            /\ file' = r.file
            /\ resp' = r.resp
            /\ last' = [op |-> "get", path |-> id]
            /\ prev' = file
            /\ UNCHANGED <<now, pc, wreq, work, wresp, overlap, acked, seen, text,
                   latest>>

CreateTodo ==
    \E b \in TodoBodies :
        \E r \in {Serve([op |-> "create", json |-> b], file, now)} :
            /\ Len(r.file.todos) <= MaxTodos
            /\ file' = r.file
            /\ resp' = r.resp
            /\ last' = [op |-> "create", json |-> b]
            /\ prev' = file
            /\ UNCHANGED <<now, pc, wreq, work, wresp, overlap, acked, seen, text,
                   latest>>

UpdateTodo ==
    \E id \in Ids, b \in TodoBodies :
        \E r \in {Serve([op |-> "replace", path |-> id, json |-> b], file, now)} :
            /\ file' = r.file
            /\ resp' = r.resp
            /\ last' = [op |-> "replace", path |-> id, json |-> b]
            /\ prev' = file
            /\ UNCHANGED <<now, pc, wreq, work, wresp, overlap, acked, seen, text,
                   latest>>

UpdateTodoDate ==
    \E id \in Ids, b \in DateBodies :
        \E r \in {Serve([op |-> "patch", path |-> id, json |-> b], file, now)} :
            /\ file' = r.file
            /\ resp' = r.resp
            /\ last' = [op |-> "patch", path |-> id, json |-> b]
            /\ prev' = file
            /\ UNCHANGED <<now, pc, wreq, work, wresp, overlap, acked, seen, text,
                   latest>>

DeleteTodo ==
    \E id \in Ids :
        \E r \in {Serve([op |-> "delete", path |-> id], file, now)} :
            /\ file' = r.file
            /\ resp' = r.resp
            /\ last' = [op |-> "delete", path |-> id]
            /\ prev' = file
            /\ UNCHANGED <<now, pc, wreq, work, wresp, overlap, acked, seen, text,
                   latest>>

\* midnight passes
Tick ==
    /\ now < MaxElapsed
    /\ now' = now + 1
    /\ last' = NoRequest
    /\ resp' = NoResponse
    /\ prev' = file
    /\ UNCHANGED <<file, pc, wreq, work, wresp, overlap, acked, seen, text,
                   latest>>

Next ==
    \/ GetTodos
    \/ GetTodo
    \/ CreateTodo
    \/ UpdateTodo
    \/ UpdateTodoDate
    \/ DeleteTodo
    \/ Tick

Spec == Init /\ [][Next]_vars

(***************************************************************************)
(* The same requests on any file the process may find, among them a file   *)
(* that is not UTF-8 text.                                                 *)
(***************************************************************************)
AnyFiles == InitFiles \cup {UndecodableFile}

InitAnyFile ==
    /\ file \in AnyFiles
    /\ now = 0
    /\ last = NoRequest
    /\ resp = NoResponse
    /\ prev = file
    /\ WorkersIdle
    /\ text = <<>>

SpecAnyFile == InitAnyFile /\ [][Next]_vars

(***************************************************************************)
(* The text of the file under save_todos(load_todos()): the file starts    *)
(* as the text json.dump wrote for a list of todos, or as such a text cut  *)
(* short; file is the list the text holds.                                 *)
(***************************************************************************)
\* titles with characters json escapes
TextTitles == {<<"A">>, <<Quote>>, <<Backslash, "n">>}

TextTodos ==
    {[id |-> id, title |-> title, description |-> Desc, completed |-> c] :
        id \in Ids, title \in TextTitles, c \in BOOLEAN}
    \cup {[id |-> id, title |-> title, description |-> Desc, completed |-> c,
           date |-> OldDate] :
              id \in Ids, title \in TextTitles, c \in BOOLEAN}

TextLists ==
    {<<>>} \cup {<<t>> : t \in TextTodos}
    \cup {l \in {<<t, u>> : t \in TextTodos, u \in TextTodos} : l[1].id # l[2].id}

\* a text whose end is missing
CutShort(s) == SubSeq(s, 1, Len(s) - 1)

InitText ==
    /\ \E todos \in TextLists :
          \/ text = json_dump(todos) /\ file = save_todos(todos)
          \/ Len(todos) < 2 /\ text = CutShort(json_dump(todos))
                /\ file = CorruptFile
    /\ now = 0
    /\ last = NoRequest
    /\ resp = NoResponse
    /\ prev = file
    /\ WorkersIdle

\* save_todos(load_todos())
SaveLoaded ==
    /\ \E s \in {json_dump(load_todos(FileOfText(text)))} :
          /\ text' = s
          /\ file' = FileOfText(s)
    /\ last' = [op |-> "save_load"]
    /\ prev' = file
    /\ UNCHANGED <<now, resp, pc, wreq, work, wresp, overlap, acked, seen,
                   latest>>

NextText == SaveLoaded

SpecText == InitText /\ [][NextText]_vars

(***************************************************************************)
(* One request at a time over three ids, each operation with one body,     *)
(* keeping the latest request that changed the store.                      *)
(***************************************************************************)
SeqIds == {1, 2, 3}

\* the id after p, in a circle
NextOf(p) == (p % 3) + 1

NewBody(id) == [id |-> id, title |-> PaddedTitle, description |-> Desc]

\* the body of a Replace on path p: it carries another id
ReplaceBody(p) ==
    [id |-> NextOf(p), title |-> <<"B">>, description |-> Desc,
     completed |-> TRUE, date |-> OldDate]

\* the latest request that changed the store, after a request on id p was
\* answered r.resp
Latest(r, p, old) ==
    IF r.resp.status = 200 THEN [resp |-> r.resp, path |-> p] ELSE old

SeqGetTodos ==
    \E r \in {Serve([op |-> "list", params |-> <<>>], file, now)} :
        /\ file' = r.file
        /\ resp' = r.resp
        /\ last' = [op |-> "list", params |-> <<>>]
        /\ prev' = file
        /\ UNCHANGED <<now, pc, wreq, work, wresp, overlap, acked, seen, text,
                       latest>>

SeqGetTodo ==
    \E id \in SeqIds :
        \E r \in {Serve([op |-> "get", path |-> id], file, now)} :
            /\ file' = r.file
            /\ resp' = r.resp
            /\ last' = [op |-> "get", path |-> id]
            /\ prev' = file
            /\ UNCHANGED <<now, pc, wreq, work, wresp, overlap, acked, seen,
                           text, latest>>

SeqCreateTodo ==
    \E id \in SeqIds :
        \E r \in {Serve([op |-> "create", json |-> NewBody(id)], file, now)} :
            /\ file' = r.file
            /\ resp' = r.resp
            /\ last' = [op |-> "create", json |-> NewBody(id)]
            /\ prev' = file
            /\ latest' = Latest(r, id, latest)
            /\ UNCHANGED <<now, pc, wreq, work, wresp, overlap, acked, seen,
                           text>>

SeqUpdateTodo ==
    \E id \in SeqIds :
        \E r \in {Serve([op |-> "replace", path |-> id,
                         json |-> ReplaceBody(id)], file, now)} :
            /\ file' = r.file
            /\ resp' = r.resp
            /\ last' = [op |-> "replace", path |-> id, json |-> ReplaceBody(id)]
            /\ prev' = file
            /\ latest' = Latest(r, id, latest)
            /\ UNCHANGED <<now, pc, wreq, work, wresp, overlap, acked, seen,
                           text>>

SeqUpdateTodoDate ==
    \E id \in SeqIds :
        \E r \in {Serve([op |-> "patch", path |-> id,
                         json |-> [date |-> OldDate]], file, now)} :
            /\ file' = r.file
            /\ resp' = r.resp
            /\ last' = [op |-> "patch", path |-> id, json |-> [date |-> OldDate]]
            /\ prev' = file
            /\ latest' = Latest(r, id, latest)
            /\ UNCHANGED <<now, pc, wreq, work, wresp, overlap, acked, seen,
                           text>>

SeqDeleteTodo ==
    \E id \in SeqIds :
        \E r \in {Serve([op |-> "delete", path |-> id], file, now)} :
            /\ file' = r.file
            /\ resp' = r.resp
            /\ last' = [op |-> "delete", path |-> id]
            /\ prev' = file
            /\ latest' = Latest(r, id, latest)
            /\ UNCHANGED <<now, pc, wreq, work, wresp, overlap, acked, seen,
                           text>>

NextSeq ==
    \/ SeqGetTodos
    \/ SeqGetTodo
    \/ SeqCreateTodo
    \/ SeqUpdateTodo
    \/ SeqUpdateTodoDate
    \/ SeqDeleteTodo

SpecSeq == Init /\ [][NextSeq]_vars

(***************************************************************************)
(* Requests served by concurrent workers.  A handler reads the file once   *)
(* (load_todos), computes, and either returns or saves and returns.        *)
(* save_todos opens the file for writing, which empties it, and then       *)
(* writes the list; the two are separate steps, and nothing keeps another  *)
(* worker from reading or writing the file between them.                   *)
(***************************************************************************)
\* the file just opened with mode "w": it exists and is empty
TruncatedFile == [kind |-> "empty", todos |-> <<>>]

\* the file after todos is written, from offset 0, to the file f opened
\* earlier: an empty f becomes the JSON text of todos; an f that another
\* writer has filled since is overwritten from its start, and what is left
\* of its text behind the new text, if it was longer, makes the file unparseable
Written(f, todos) ==
    IF f.kind = "empty"
    THEN {save_todos(todos)}
    ELSE {save_todos(todos), CorruptFile}

\* the character U+AC00, which UTF-8 writes as three bytes and json.dump,
\* with ensure_ascii=False, writes as itself
Ga == "U+AC00"

MultiByte(c) == c = Ga

\* some string of todos holds a character of several bytes
HasMultiByte(todos) ==
    \E i \in 1..Len(todos) :
        \E k \in {"title", "description"} \cap DOMAIN todos[i] :
            \E j \in 1..Len(todos[i][k]) : MultiByte(todos[i][k][j])

\* the file when the write of todos to the opened file has stopped part way:
\* still empty, a text cut short, or, cut inside a character of several
\* bytes, bytes that are not UTF-8
Unfinished(todos) ==
    {TruncatedFile, CorruptFile}
        \cup (IF HasMultiByte(todos) THEN {UndecodableFile} ELSE {})

ConcBody(id) ==
    [id |-> id, title |-> <<Ga>>, description |-> Desc,
     completed |-> TRUE, date |-> OldDate]

Other(id) == CHOOSE o \in Ids : o # id

\* the requests the workers serve (all pass validation); a Replace carries
\* the other id in its body
ConcRequests ==
    UNION {{ [op |-> "create", json |-> ConcBody(id)],
             [op |-> "replace", path |-> id, json |-> ConcBody(Other(id))],
             [op |-> "patch", path |-> id, json |-> [date |-> TODAY]],
             [op |-> "delete", path |-> id] } : id \in Ids}

ConcInit ==
    /\ file = save_todos(<<>>)
    /\ now = 0
    /\ last = NoRequest
    /\ resp = NoResponse
    /\ prev = file
    /\ WorkersIdle
    /\ text = <<>>

InFlight(w) == pc[w] \in {"loaded", "opened"}

\* f is a file as a save that has not finished leaves it
Interrupted(f) == f \in {TruncatedFile, CorruptFile, UndecodableFile}

\* a worker takes a request; its handler calls load_todos and computes
Load(w) ==
    /\ pc[w] \in {"idle", "done"}
    /\ \E req \in ConcRequests :
          /\ Validate(req, now).ok
          /\ \E r \in {Ran(req, Validate(req, now), file, now)} :
                /\ Len(r.todos) <= MaxTodos
                /\ work' = [work EXCEPT ![w] = r]
          /\ wreq' = [wreq EXCEPT ![w] = req]
    /\ pc' = [pc EXCEPT ![w] = "loaded"]
    /\ wresp' = [wresp EXCEPT ![w] = NoResponse]
    /\ overlap' = (overlap \/ \E o \in Workers \ {w} : InFlight(o))
    /\ seen' = [seen EXCEPT ![w] = Interrupted(file)]
    /\ UNCHANGED <<file, now, last, resp, prev, acked, text, latest>>

\* the handler returns (or raises HTTPException) without calling save_todos
Return(w) ==
    /\ pc[w] = "loaded"
    /\ ~work[w].save
    /\ wresp' = [wresp EXCEPT ![w] = work[w].resp]
    /\ pc' = [pc EXCEPT ![w] = "done"]
    /\ work' = [work EXCEPT ![w] = NoWork]
    /\ UNCHANGED <<file, now, last, resp, prev, wreq, overlap, acked, seen, text,
                   latest>>

\* save_todos: TODO_FILE.open("w")
Open(w) ==
    /\ pc[w] = "loaded"
    /\ work[w].save
    /\ file' = TruncatedFile
    /\ pc' = [pc EXCEPT ![w] = "opened"]
    /\ UNCHANGED <<now, last, resp, prev, wreq, work, wresp, overlap, acked, seen, text,
                   latest>>

\* the ids acknowledged once the request req has been answered 200
Acked(req, ids) ==
    CASE req.op = "create" -> ids \cup {req.json.id}
      [] req.op = "delete" -> ids \ {req.path}
      [] OTHER -> ids

\* save_todos: json.dump and close; then the handler returns
Write(w) ==
    /\ pc[w] = "opened"
    /\ file' \in Written(file, work[w].todos)
    /\ wresp' = [wresp EXCEPT ![w] = work[w].resp]
    /\ pc' = [pc EXCEPT ![w] = "done"]
    /\ work' = [work EXCEPT ![w] = NoWork]
    /\ acked' = Acked(wreq[w], acked)
    /\ UNCHANGED <<now, last, resp, prev, wreq, overlap, seen, text,
                   latest>>

ConcNext == \E w \in Workers : Load(w) \/ Return(w) \/ Open(w) \/ Write(w)

SpecConc == ConcInit /\ [][ConcNext]_vars

(***************************************************************************)
(* The same workers in a process that may be killed while a save_todos has *)
(* opened the file and not finished writing; the process is started again  *)
(* on the file as it was left.                                             *)
(***************************************************************************)
Crash ==
    /\ \E w \in Workers :
          /\ pc[w] = "opened"
          /\ file' \in {file} \cup Unfinished(work[w].todos)
    /\ pc' = [w \in Workers |-> "idle"]
    /\ wreq' = [w \in Workers |-> NoRequest]
    /\ work' = [w \in Workers |-> NoWork]
    /\ wresp' = [w \in Workers |-> NoResponse]
    /\ seen' = [w \in Workers |-> FALSE]
    /\ UNCHANGED <<now, last, resp, prev, overlap, acked, text, latest>>

NextCrash == ConcNext \/ Crash

SpecCrash == ConcInit /\ [][NextCrash]_vars

(***************************************************************************)
(* Properties of one request served at a time (Spec).  last is the request *)
(* just served, resp its response, prev the file it found, file the file   *)
(* it left.                                                                *)
(***************************************************************************)
Before == load_todos(prev)

After == load_todos(file)

IdsOf(todos) == [i \in 1..Len(todos) |-> todos[i].id]

\* the record with this id that the request found in the store
Found(id) == Before[FirstIdx(Before, id)]

\* a and b agree on every field but the date
SameButDate(a, b) ==
    /\ a.id = b.id
    /\ a.title = b.title
    /\ a.description = b.description
    /\ a.completed = b.completed

\* C1: a Create with a valid body whose id some stored record has answers
\* 409 Conflict and leaves the file as it found it.
C1_DuplicateCreateConflicts ==
    (/\ last.op = "create"
     /\ Validate(last, now).ok
     /\ HasId(Before, last.json.id))
        => (resp.status = 409 /\ file = prev)

\* a Create was answered 409 for an id whose stored record differs from the body
C1_Witness ==
    /\ last.op = "create"
    /\ resp.status = 409
    /\ Len(Before) > 0
    /\ "date" \in DOMAIN Found(last.json.id)
    /\ Found(last.json.id) # Validate(last, now).value

\* C2: after a successful Replace on path id p, the returned record and the
\* record stored at the position of p have id p, whatever id the body has, and
\* the ids of the collection are what they were.
C2_ReplaceKeepsPathId ==
    (last.op = "replace" /\ resp.status = 200)
        => /\ resp.body.id = last.path
           /\ After[FirstIdx(Before, last.path)].id = last.path
           /\ IdsOf(After) = IdsOf(Before)

\* a Replace succeeded with a body whose id is not the path id
C2_Witness ==
    /\ last.op = "replace"
    /\ resp.status = 200
    /\ last.json.id # last.path
    /\ Len(Before) = 2

\* C3: a successful Replace whose body omits the date keeps the date the
\* stored record had, in the store and in the response; a stored record
\* without a date gets today's date.
C3_ReplaceWithoutDateKeepsDate ==
    (last.op = "replace" /\ resp.status = 200 /\ "date" \notin DOMAIN last.json)
        => /\ After[FirstIdx(Before, last.path)].date = resp.body.date
           /\ IF "date" \in DOMAIN Found(last.path)
              THEN resp.body.date = Found(last.path).date
              ELSE resp.body.date \in {TODAY, today(now)}

\* the records List or Get-one returned
Returned == IF last.op = "get" THEN <<resp.body>> ELSE resp.body.todos

\* C4: every record List or Get-one returns has a date, and a record stored
\* without a date is returned with the date of the day of the request.
C4_BackfillIsCurrentDate ==
    (last.op \in {"list", "get"} /\ resp.status = 200)
        => \A i \in 1..Len(Returned) :
              /\ "date" \in DOMAIN Returned[i]
              /\ "date" \notin DOMAIN Found(Returned[i].id)
                    => Returned[i].date = today(now)

\* C5: List and Get-one leave the file as they found it; a record stored
\* without a date is still stored without it.
C5_ReadsDoNotWrite ==
    last.op \in {"list", "get"} => file = prev

\* a read returned a backfilled date for a record that is stored without one
C5_Witness ==
    /\ last.op \in {"list", "get"}
    /\ resp.status = 200
    /\ Len(Returned) > 0
    /\ "date" \in DOMAIN Returned[1]
    /\ "date" \notin DOMAIN Found(Returned[1].id)
    /\ "date" \notin DOMAIN After[FirstIdx(After, Returned[1].id)]

\* C8: Delete, Replace, Patch-date and Get-one on an id no stored record has
\* answer 404 and leave the file as they found it.
C8_NotFoundLeavesStore ==
    (/\ last.op \in {"delete", "replace", "patch", "get"}
     /\ Validate(last, now).ok
     /\ ~HasId(Before, last.path))
        => (resp.status = 404 /\ file = prev)

\* a Delete of an absent id was answered on a store that holds a record
C8_Witness ==
    /\ last.op = "delete"
    /\ resp.status = 404
    /\ Len(Before) > 0
    /\ After = Before

\* s is a calendar date written YYYY-MM-DD
IsIsoDate(s) ==
    /\ Len(s) = 10
    /\ s[5] = "-" /\ s[8] = "-"
    /\ \A i \in {1, 2, 3, 4, 6, 7, 9, 10} : IsDigit(s[i])
    /\ IsDate(int(SubSeq(s, 1, 4)), int(SubSeq(s, 6, 7)), int(SubSeq(s, 9, 10)))

Blank(obj, key) == key \in DOMAIN obj /\ strip(obj[key]) = <<>>

BadDate(obj) == "date" \in DOMAIN obj /\ ~IsIsoDate(obj.date)

\* C9: a Create or Replace whose title or description is blank or whose date
\* is not a YYYY-MM-DD calendar date, and a Patch-date whose date is not one,
\* answer 422 whether or not the id exists, and leave the file as found.
C9_InvalidBodyRejected ==
    (\/ /\ last.op \in {"create", "replace"}
        /\ Blank(last.json, "title") \/ Blank(last.json, "description")
              \/ BadDate(last.json)
     \/ /\ last.op = "patch"
        /\ BadDate(last.json))
        => (resp.status = 422 /\ file = prev)

\* C10: a successful Patch-date with date d returns the record with date d
\* and every other field as stored, stores that record in the same position,
\* and leaves every other record as it was; also when the stored record had
\* no date.
C10_PatchChangesOnlyDate ==
    (last.op = "patch" /\ resp.status = 200)
        => /\ resp.body.date = last.json.date
           /\ SameButDate(resp.body, Found(last.path))
           /\ Len(After) = Len(Before)
           /\ \A j \in 1..Len(Before) :
                 IF j = FirstIdx(Before, last.path)
                 THEN After[j] = resp.body
                 ELSE After[j] = Before[j]

\* a Patch-date succeeded on a record stored without a date, next to another
C10_Witness ==
    /\ last.op = "patch"
    /\ resp.status = 200
    /\ "date" \notin DOMAIN Found(last.path)
    /\ Len(Before) = 2

(***************************************************************************)
(* Properties of requests served by concurrent workers (SpecConc).         *)
(***************************************************************************)
\* no worker is inside a request
Quiescent == \A w \in Workers : ~InFlight(w)

\* worker w has been answered 200 for a Create
Created(w) ==
    pc[w] = "done" /\ wreq[w].op = "create" /\ wresp[w].status = 200

\* C6: however the load and save steps of Create, Replace, Patch-date and
\* Delete requests interleave, no two records of the file share an id.
C6_IdsStayDistinct ==
    \A i, j \in 1..Len(file.todos) :
        i # j => file.todos[i].id # file.todos[j].id

\* two overlapping Creates of the same id were both answered 200
C6_Witness ==
    /\ overlap
    /\ file.kind = "json"
    /\ \E w1, w2 \in Workers :
          /\ w1 # w2
          /\ Created(w1) /\ Created(w2)
          /\ wreq[w1].json.id = wreq[w2].json.id
          /\ HasId(file.todos, wreq[w1].json.id)

\* C7, requests run one after the other: when no request has overlapped
\* another and none is running, every acknowledged Create is in the file.
C7_SequentialKeepsAll ==
    (~overlap /\ Quiescent) => \A id \in acked : HasId(load_todos(file), id)

\* C7, lost update: two overlapping Creates of distinct ids were both
\* answered 200, neither id was deleted, and the file holds only one of them
C7_Witness ==
    /\ overlap
    /\ Quiescent
    /\ file.kind = "json"
    /\ \E w1, w2 \in Workers :
          /\ Created(w1) /\ Created(w2)
          /\ wreq[w1].json.id # wreq[w2].json.id
          /\ {wreq[w1].json.id, wreq[w2].json.id} \subseteq acked
          /\ HasId(file.todos, wreq[w2].json.id)
          /\ ~HasId(file.todos, wreq[w1].json.id)

(***************************************************************************)
(* Further properties of one request served at a time (Spec).              *)
(***************************************************************************)
\* the record satisfies every filter the query gives
Matches(t, query) ==
    /\ "completed" \in DOMAIN query => t.completed = query.completed
    /\ "date" \in DOMAIN query => t.date = query.date

\* the positions of the stored records that satisfy the query once backfilled
Kept(todos, query) ==
    {i \in 1..Len(todos) : Matches(Backfill(todos[i]), query)}

\* the k-th smallest member of a set of positions
Nth(S, k) == CHOOSE i \in S : Cardinality({j \in S : j <= i}) = k

\* C11: List answers 200 with exactly the stored records, backfilled, that
\* satisfy every filter given (completed, date, both or none), in stored order.
C11_ListReturnsMatches ==
    last.op = "list"
        => /\ resp.status = 200
           /\ Len(Returned) = Cardinality(Kept(Before, last.params))
           /\ \A k \in 1..Len(Returned) :
                 Returned[k] = Backfill(Before[Nth(Kept(Before, last.params), k)])

\* a List with both filters returned the second of two stored records only
C11_Witness ==
    /\ last.op = "list"
    /\ DOMAIN last.params = {"completed", "date"}
    /\ Len(Before) = 2
    /\ Len(Returned) = 1
    /\ Returned[1].id = Before[2].id
    /\ Before[1].completed = last.params.completed

\* C13: a successful Create stores the list it found with one record
\* appended and returns that record: the id of the body, title and description
\* trimmed, completed false when omitted, the date of the day of the request
\* when omitted.
C13_CreateAppendsRecord ==
    (last.op = "create" /\ resp.status = 200)
        => /\ After = Append(Before, resp.body)
           /\ resp.body.id = last.json.id
           /\ resp.body.title = strip(last.json.title)
           /\ resp.body.description = strip(last.json.description)
           /\ resp.body.completed = IF "completed" \in DOMAIN last.json
                                    THEN last.json.completed ELSE FALSE
           /\ resp.body.date = IF "date" \in DOMAIN last.json
                               THEN last.json.date ELSE today(now)

\* a Create with a padded title and neither completed nor date succeeded
\* on a store of one record, on a later day than the process started
C13_Witness ==
    /\ last.op = "create"
    /\ resp.status = 200
    /\ last.json.title # strip(last.json.title)
    /\ DOMAIN last.json = {"id", "title", "description"}
    /\ Len(Before) = 1
    /\ now > 0

(***************************************************************************)
(* Properties of one request at a time over three ids (SpecSeq).           *)
(***************************************************************************)
\* the latest request that changed the store was a Delete
LatestDeleted == "message" \in DOMAIN latest.resp.body

\* C15: while no other request has changed the store since, Get-one on the
\* id of the latest successful Create, Replace or Patch-date returns the
\* record that request returned; after a successful Delete the id is not in
\* the store and Get-one on it answers 404.
C15_ReadYourWrites ==
    /\ (latest # NoMutation /\ LatestDeleted) => ~HasId(After, latest.path)
    /\ (last.op = "get" /\ last.path = latest.path)
          => IF LatestDeleted THEN resp.status = 404 ELSE resp = latest.resp

\* a Get-one returned the record the latest Replace had returned, the second
\* of two stored records
C15_Witness ==
    /\ last.op = "get"
    /\ last.path = latest.path
    /\ resp.status = 200
    /\ resp.body.title = <<"B">>
    /\ Len(After) = 2
    /\ After[2].id = last.path
    /\ file = prev

\* the ids of the list without p, in the order of the list
Without(ids, p) == LET Stays(id) == id # p IN SelectSeq(ids, Stays)

\* C16: the store keeps insertion order: a successful Create puts the new id
\* last, Replace and Patch-date keep every id at its position, Delete keeps
\* the remaining ids in their order; no other request changes the order.
C16_InsertionOrder ==
    IdsOf(After) =
        IF resp.status # 200 THEN IdsOf(Before)
        ELSE CASE last.op = "create" -> Append(IdsOf(Before), last.json.id)
               [] last.op = "delete" -> Without(IdsOf(Before), last.path)
               [] OTHER -> IdsOf(Before)

\* a Delete removed the middle one of three records that were not stored in
\* the order of their ids
C16_Witness ==
    /\ last.op = "delete"
    /\ resp.status = 200
    /\ Len(Before) = 3
    /\ last.path = Before[2].id
    /\ Before[1].id > Before[3].id
    /\ After = <<Before[1], Before[3]>>

(***************************************************************************)
(* Properties of the file's text (SpecText).                               *)
(***************************************************************************)
\* C14: save_todos(load_todos()) on a file that holds a collection leaves a
\* file that holds the same collection, and doing it again leaves the same
\* text.
C14_SaveLoadRoundTrip ==
    (last.op = "save_load" /\ prev.kind = "json")
        => /\ file = prev
           /\ json_dump(load_todos(FileOfText(text))) = text

\* the file saved as loaded holds two records, one with a quote in its
\* title and no date, the other with a backslash in its title
C14_Witness ==
    /\ last.op = "save_load"
    /\ prev.kind = "json"
    /\ Len(prev.todos) = 2
    /\ prev.todos[1].title = <<Quote>>
    /\ "date" \notin DOMAIN prev.todos[1]
    /\ prev.todos[2].title = <<Backslash, "n">>

(***************************************************************************)
(* Properties of the requests on any file (SpecAnyFile).                   *)
(***************************************************************************)
\* C12: load_todos never raises: on a file that is missing or that does not
\* hold a JSON collection it returns the empty list, so that List answers
\* 200 with an empty sequence.
C12_UnparseableLoadsEmpty ==
    (last.op = "list" /\ prev.kind # "json")
        => (resp.status = 200 /\ Returned = <<>>)

\* C17: on a file that is missing or does not hold a collection, every
\* request answers what it answers on a file holding the empty collection and
\* leaves the same collection to load; a 404 leaves the file as it was.
C17_UnreadableAsEmpty ==
    (last.op # "none" /\ prev.kind # "json")
        => \E e \in {Serve(last, save_todos(<<>>), now)} :
              /\ resp = e.resp
              /\ After = load_todos(e.file)
              /\ resp.status = 404 => file = prev

(***************************************************************************)
(* Properties of a process killed inside a save (SpecCrash).               *)
(***************************************************************************)
\* C18: a request that loads the file while a save has opened it and not
\* finished writing it, or after the process was killed inside that save,
\* is not answered 500 and goes on as its handler does from the empty list:
\* what it then saves holds none of the records stored before that save.
C18_InterruptedSaveLoadsEmpty ==
    \A w \in Workers :
        (seen[w] /\ InFlight(w)) =>
            /\ work[w].resp.status # 500
            /\ work[w] = Handler(wreq[w], Validate(wreq[w], now).value,
                                 <<>>, now)

====
